---- MODULE Spec2Model ----
(***************************************************************************)
(* Berlekamp-Welch demonstration page (src/main.rs).                       *)
(*                                                                         *)
(* The page keeps a State {errors, original, encoded, is_error, hack} and  *)
(* three handlers edit it: on_original_change, on_encoded_change and the   *)
(* max-errors on_input.  The handlers call my_encode / my_decode, which    *)
(* map text to symbols of GF(67) and call encode / decode of the           *)
(* berlewelch crate.  main.rs is modelled from its code.  The crate is not *)
(* part of src/; encode, decode and the field arithmetic are modelled from *)
(* spec.md (sections 4.1 - 4.3) together with what main.rs shows of them:  *)
(* encode returns a plain vector (main.rs:72), decode works in place and   *)
(* returns Result<(), ()> (main.rs:78), the message is the first           *)
(* len - 2*errors symbols of the decoded buffer (main.rs:79) and the       *)
(* redundancy is "additional characters on the end" (main.rs:91-92).       *)
(*                                                                         *)
(* Text is a sequence of character codes (a char as i64, main.rs:49-51).   *)
(***************************************************************************)
EXTENDS Integers, Sequences, FiniteSets, TLC

\* ------------------------------------------------------------------------
\* Field arithmetic, Gfe<67>
\* ------------------------------------------------------------------------

\* the prime modulus: Gfe<67> (main.rs:42)
P == 67

Gfe == 0..(P - 1)

\* the sum without its reduction
add_raw(a, b) == a + b

add(a, b) == (a + b) % P

sub(a, b) == (a - b) % P

mul(a, b) == (a * b) % P

RECURSIVE pow(_, _)
\* square and multiply
pow(a, n) ==
    IF n = 0 THEN 1
    ELSE LET h == pow(a, n \div 2)
         IN  IF n % 2 = 0 THEN mul(h, h) ELSE mul(a, mul(h, h))

\* Fermat: a^(p-2); undefined for 0
InverseTable == [a \in 1..(P - 1) |-> pow(a, P - 2)]

inverse(a) == InverseTable[a]

div(a, b) == mul(a, inverse(b))

\* construction from an integer: a true modulo (".into()", main.rs:53)
gfe(i) == i % P

\* ------------------------------------------------------------------------
\* Polynomials: coefficient sequences, coefficient i+1 multiplies x^i
\* ------------------------------------------------------------------------

RECURSIVE poly_eval_from(_, _, _)
poly_eval_from(poly, x, i) ==
    IF i > Len(poly) THEN 0
    ELSE add(poly[i], mul(x, poly_eval_from(poly, x, i + 1)))

\* Horner evaluation of poly at x
poly_eval(poly, x) == poly_eval_from(poly, x, 1)

RECURSIVE lagrange_basis(_, _, _, _)
\* prod over l in from..k-1, l # j, of (x - l) / (j - l)
lagrange_basis(k, j, x, from) ==
    IF from >= k THEN 1
    ELSE IF from = j THEN lagrange_basis(k, j, x, from + 1)
    ELSE mul(div(sub(gfe(x), gfe(from)), sub(gfe(j), gfe(from))),
             lagrange_basis(k, j, x, from + 1))

RECURSIVE coefficients_at(_, _, _)
\* the values taken as coefficients: sum of vals[j+1] * x^j
coefficients_at(vals, x, j) ==
    IF j >= Len(vals) THEN 0
    ELSE add(mul(vals[j + 1], pow(gfe(x), j)), coefficients_at(vals, x, j + 1))

RECURSIVE interpolate_at(_, _, _)
\* value at x of the polynomial of degree < k whose values at the points
\* 0..k-1 are vals[1..k]
interpolate_at(vals, x, j) ==
    IF j >= Len(vals) THEN 0
    ELSE add(mul(vals[j + 1], lagrange_basis(Len(vals), j, x, 0)),
             interpolate_at(vals, x, j + 1))

RECURSIVE poly_divmod(_, _, _, _)
\* long division of num by the monic polynomial den; d counts down over the
\* quotient's coefficients; returns quotient and remainder
poly_divmod(num, den, d, quot) ==
    IF d < 0 THEN [quot |-> quot, rem |-> SubSeq(num, 1, Len(den) - 1)]
    ELSE LET e    == Len(den) - 1
             coef == num[d + e + 1]
             num2 == [i \in 1..Len(num) |->
                        IF i >= d + 1 /\ i <= d + e + 1
                        THEN sub(num[i], mul(coef, den[i - d]))
                        ELSE num[i]]
         IN  poly_divmod(num2, den, d - 1, [quot EXCEPT ![d + 1] = coef])

\* ------------------------------------------------------------------------
\* Linear systems over the field, Gaussian elimination
\* ------------------------------------------------------------------------

\* least row index >= row with a non-zero entry in column col, 0 if none
find_pivot(A, col, row) ==
    LET cand == {r \in row..Len(A) : A[r][col] # 0}
    IN  IF cand = {} THEN 0 ELSE CHOOSE r \in cand : \A s \in cand : r <= s

\* swap rows, scale the pivot row to 1, clear the column in all other rows
eliminate(A, col, row, r) ==
    LET w     == Len(A[1])
        piv   == A[r]
        c     == inverse(piv[col])
        normd == [j \in 1..w |-> mul(piv[j], c)]
        swapd == [A EXCEPT ![r] = A[row], ![row] = normd]
    IN  [i \in 1..Len(A) |->
            IF i = row THEN normd
            ELSE LET f == swapd[i][col]
                 IN  IF f = 0 THEN swapd[i]
                     ELSE [j \in 1..w |-> sub(swapd[i][j], mul(f, normd[j]))]]

RECURSIVE gauss(_, _, _, _)
\* A: rows of the augmented matrix; nu unknowns; pivots[c] = row of the
\* pivot of column c, 0 for a column without one
gauss(A, col, row, pivots) ==
    IF col > Len(pivots) \/ row > Len(A) THEN [A |-> A, pivots |-> pivots, rank |-> row - 1]
    ELSE LET r == find_pivot(A, col, row)
         IN  IF r = 0 THEN gauss(A, col + 1, row, pivots)
             ELSE gauss(eliminate(A, col, row, r), col + 1, row + 1,
                        [pivots EXCEPT ![col] = row])

\* reading the solution off a system that leaves an unknown free refused
solution_of_unique(g, rows, nu) ==
    IF (\E i \in (g.rank + 1)..rows : g.A[i][nu + 1] # 0) \/ g.rank < nu
    THEN [ok |-> FALSE, x |-> <<>>]
    ELSE [ok |-> TRUE, x |-> [c \in 1..nu |-> g.A[g.pivots[c]][nu + 1]]]

\* the solution of the reduced system g: a row 0 = b with b # 0 means no
\* solution, a failure; unknowns the system leaves free are 0
solution_of(g, rows, nu) ==
    IF \E i \in (g.rank + 1)..rows : g.A[i][nu + 1] # 0
    THEN [ok |-> FALSE, x |-> <<>>]
    ELSE [ok |-> TRUE,
          x  |-> [c \in 1..nu |->
                    IF g.pivots[c] = 0 THEN 0 ELSE g.A[g.pivots[c]][nu + 1]]]

\* solve A x = b (A augmented with b as last column, nu unknowns)
solve(A, nu) == solution_of(gauss(A, 1, 1, [c \in 1..nu |-> 0]), Len(A), nu)

\* ------------------------------------------------------------------------
\* Encoder and decoder (berlewelch::encode, berlewelch::decode)
\* ------------------------------------------------------------------------

\* an encoder without the range check: the evaluation points wrap modulo p
encode_wrap(errors, msg) ==
    LET k == Len(msg)
        n == k + 2 * errors
    IN  IF k = 0 THEN [err |-> "none", val |-> <<>>]
        ELSE [err |-> "none",
              val |-> [i \in 1..n |-> interpolate_at(msg, i - 1, 0)]]

\* an encoder that takes the message symbols as the coefficients of M
encode_coefficients(errors, msg) ==
    LET k == Len(msg)
        n == k + 2 * errors
    IN  IF k = 0 THEN [err |-> "none", val |-> <<>>]
        ELSE IF n > P THEN [err |-> "RedundancyTooLarge", val |-> <<>>]
        ELSE [err |-> "none",
              val |-> [i \in 1..n |-> coefficients_at(msg, i - 1, 0)]]

\* encode(errors, msg): the message symbols are the values at the points
\* 0..k-1 of a polynomial M of degree < k; the codeword is M at the points
\* 0..n-1, n = k + 2*errors.  An empty message gives an empty codeword;
\* n > p is the out-of-range error.
encode(errors, msg) ==
    LET k == Len(msg)
        n == k + 2 * errors
    IN  IF k = 0 THEN [err |-> "none", val |-> <<>>]
        ELSE IF n > P THEN [err |-> "RedundancyTooLarge", val |-> <<>>]
        ELSE [err |-> "none",
              val |-> [i \in 1..n |-> interpolate_at(msg, i - 1, 0)]]

\* the Berlekamp-Welch system for the received word buf: row i states
\* Q(x_i) - y_i * (E(x_i) - x_i^e) = y_i * x_i^e, with k+e unknown
\* coefficients of Q and the e low coefficients of the monic locator E
bw_system(errors, buf) ==
    LET n  == Len(buf)
        nq == n - errors
    IN  [i \in 1..n |->
            LET x == gfe(i - 1)
                y == buf[i]
            IN  [j \in 1..(n + 1) |->
                    IF j <= nq THEN pow(x, j - 1)
                    ELSE IF j <= n THEN sub(0, mul(y, pow(x, j - 1 - nq)))
                    ELSE mul(y, pow(x, errors))]]

\* the division step done: a non-zero remainder is a failure, otherwise
\* the buffer becomes the quotient at the points 0..n-1
decode_divided(buf, dm) ==
    IF \E i \in 1..Len(dm.rem) : dm.rem[i] # 0
    THEN [ok |-> FALSE, buf |-> buf]
    ELSE [ok  |-> TRUE,
          buf |-> [i \in 1..Len(buf) |-> poly_eval(dm.quot, gfe(i - 1))]]

\* the system solved: s.x holds the k+e coefficients of Q, then the e low
\* coefficients of the monic locator E; divide Q by E
decode_solved(errors, buf, s) ==
    IF ~s.ok THEN [ok |-> FALSE, buf |-> buf]
    ELSE decode_divided(buf,
            poly_divmod(SubSeq(s.x, 1, Len(buf) - errors),
                        SubSeq(s.x, Len(buf) - errors + 1, Len(buf)) \o <<1>>,
                        Len(buf) - 2 * errors - 1,
                        [i \in 1..(Len(buf) - 2 * errors) |-> 0]))

\* decode that reports a buffer shorter than the redundancy as corrected
decode_short_ok(errors, buf) ==
    IF Len(buf) < 2 * errors THEN [ok |-> TRUE, buf |-> buf]
    ELSE decode_solved(errors, buf, solve(bw_system(errors, buf), Len(buf)))

\* decode(errors, buf): Ok with the corrected buffer, or Err(()); a buffer
\* shorter than the redundancy is a failure
decode(errors, buf) ==
    IF Len(buf) < 2 * errors THEN [ok |-> FALSE, buf |-> buf]
    ELSE decode_solved(errors, buf, solve(bw_system(errors, buf), Len(buf)))

\* ------------------------------------------------------------------------
\* Alphabet mapping (main.rs:38-68); a char is its code
\* ------------------------------------------------------------------------

\* the value a panicking / unreachable match arm stands for
Unexpected == 0 - 1

is_ascii_alphanumeric(c) ==
    (48 <= c /\ c <= 57) \/ (65 <= c /\ c <= 90) \/ (97 <= c /\ c <= 122)

is_valid_char(c) ==
    is_ascii_alphanumeric(c) \/ c = 95 \/ c = 45 \/ c = 46 \/ c = 44 \/ c = 47

\* is_valid_message that also lets the space through
is_valid_message_space(msg) ==
    Len(msg) # 0 /\ \A i \in 1..Len(msg) : is_valid_char(msg[i]) \/ msg[i] = 32

is_valid_message(msg) ==
    Len(msg) # 0 /\ \A i \in 1..Len(msg) : is_valid_char(msg[i])

\* the digit arm with the offset of the upper case arm
char_to_c67_digits(c) ==
    IF c = 95 THEN 62
    ELSE IF c = 45 THEN 63
    ELSE IF c = 46 THEN 64
    ELSE IF c = 44 THEN 65
    ELSE IF c = 47 THEN 66
    ELSE IF 97 <= c /\ c <= 122 THEN gfe(c - 97)
    ELSE IF 65 <= c /\ c <= 90 THEN gfe(c - 65 + 26)
    ELSE IF 48 <= c /\ c <= 57 THEN gfe(c - 48 + 26)
    ELSE Unexpected

char_to_c67(c) ==
    IF c = 95 THEN 62
    ELSE IF c = 45 THEN 63
    ELSE IF c = 46 THEN 64
    ELSE IF c = 44 THEN 65
    ELSE IF c = 47 THEN 66
    ELSE IF 97 <= c /\ c <= 122 THEN gfe(c - 97)
    ELSE IF 65 <= c /\ c <= 90 THEN gfe(c - 65 + 26)
    ELSE IF 48 <= c /\ c <= 57 THEN gfe(c - 48 + 52)
    ELSE Unexpected

str_to_c67(msg) == [i \in 1..Len(msg) |-> char_to_c67(msg[i])]

\* the upper case arm with the base of the lower case arm
c67_to_char_lower(x) ==
    IF x = 62 THEN 95
    ELSE IF x = 63 THEN 45
    ELSE IF x = 64 THEN 46
    ELSE IF x = 65 THEN 44
    ELSE IF x = 66 THEN 47
    ELSE IF 0 <= x /\ x < 26 THEN x + 97
    ELSE IF 26 <= x /\ x < 52 THEN x - 26 + 97
    ELSE IF 52 <= x /\ x < 62 THEN x - 52 + 48
    ELSE Unexpected

c67_to_char(x) ==
    IF x = 62 THEN 95
    ELSE IF x = 63 THEN 45
    ELSE IF x = 64 THEN 46
    ELSE IF x = 65 THEN 44
    ELSE IF x = 66 THEN 47
    ELSE IF 0 <= x /\ x < 26 THEN x + 97
    ELSE IF 26 <= x /\ x < 52 THEN x - 26 + 65
    ELSE IF 52 <= x /\ x < 62 THEN x - 52 + 48
    ELSE Unexpected

c67_to_str(msg) == [i \in 1..Len(msg) |-> c67_to_char(msg[i])]

has_unexpected(seq) == \E i \in 1..Len(seq) : seq[i] = Unexpected

\* c67_to_str(&encoded) (main.rs:73)
my_encode_text(str) ==
    IF has_unexpected(str) THEN [panic |-> "unreachable", val |-> <<>>]
    ELSE [panic |-> "none", val |-> str]

\* what my_encode makes of encode's result (main.rs:72-73)
my_encode_encoded(encoded) ==
    IF encoded.err # "none" THEN [panic |-> encoded.err, val |-> <<>>]
    ELSE my_encode_text(c67_to_str(encoded.val))

\* my_encode (main.rs:70-74): the String, or the panic that ends the call
my_encode(errors, msg) ==
    IF has_unexpected(str_to_c67(msg))
    THEN [panic |-> "Unexpected character", val |-> <<>>]
    ELSE my_encode_encoded(encode(errors, str_to_c67(msg)))

\* Ok(c67_to_str(..)) (main.rs:79)
my_decode_text(str) ==
    IF has_unexpected(str) THEN [panic |-> "unreachable", ok |-> FALSE, val |-> <<>>]
    ELSE [panic |-> "none", ok |-> TRUE, val |-> str]

\* the slice with the bound len - errors
my_decode_slice_errors(errors, buf) ==
    IF Len(buf) < errors
    THEN [panic |-> "slice index", ok |-> FALSE, val |-> <<>>]
    ELSE my_decode_text(c67_to_str(SubSeq(buf, 1, Len(buf) - errors)))

\* &c67[..c67.len() - 2 * errors] (main.rs:79)
my_decode_slice(errors, buf) ==
    IF Len(buf) < 2 * errors
    THEN [panic |-> "slice index", ok |-> FALSE, val |-> <<>>]
    ELSE my_decode_text(c67_to_str(SubSeq(buf, 1, Len(buf) - 2 * errors)))

\* decode(errors, &mut c67)? and the Ok line (main.rs:78-79)
my_decode_decoded(errors, d) ==
    IF ~d.ok THEN [panic |-> "none", ok |-> FALSE, val |-> <<>>]
    ELSE my_decode_slice(errors, d.buf)

\* my_decode (main.rs:76-80): Ok(String), Err(()), or a panic
my_decode(errors, msg) ==
    IF has_unexpected(str_to_c67(msg))
    THEN [panic |-> "Unexpected character", ok |-> FALSE, val |-> <<>>]
    ELSE my_decode_decoded(errors, decode(errors, str_to_c67(msg)))

\* ------------------------------------------------------------------------
\* State (main.rs:6-26) and the codec pipeline under test
\* ------------------------------------------------------------------------

VARIABLES
    errors,     \* State.errors
    original,   \* State.original
    encoded,    \* State.encoded
    is_error,   \* State.is_error
    hack,       \* State.hack
    panicked,   \* "none", or the panic that ended a handler (the page traps)
    c_pc,       \* pipeline position: "idle", "input", "encoded", "decoded"
    c_errors,   \* pipeline: the error budget
    c_msg,      \* pipeline: the message text
    c_syms,     \* pipeline: encode's output symbols
    c_word,     \* pipeline: the codeword text, possibly corrupted
    c_bad,      \* pipeline: the corrupted positions
    c_buf,      \* pipeline: the buffer decode leaves
    c_out,      \* pipeline: my_decode's result
    events,     \* number of events handled so far
    last        \* the last event handled: its handler and its input

ui_vars == <<errors, original, encoded, is_error, hack, panicked>>

codec_vars == <<c_pc, c_errors, c_msg, c_syms, c_word, c_bad, c_buf, c_out>>

vars == <<errors, original, encoded, is_error, hack, panicked,
          c_pc, c_errors, c_msg, c_syms, c_word, c_bad, c_buf, c_out, events, last>>

\* bounds of the checked instances
MaxOrigLen == 2

MaxEncLen == 5

MaxEvents == 5

MaxMsgLen == 2

MaxBudget == 2

\* characters typed into the two text fields: 'a', '/', and ' ' (rejected)
UIChars == {97, 47, 32}

\* values typed into the max-errors field: the numeral of an i32, or text
\* that is none (empty, letters, a numeral out of the i32 range)
ErrorsInputs ==
    {[num |-> TRUE, x |-> v] : v \in {0, 1, 2, 77}}
        \cup {[num |-> FALSE, x |-> 0]}

\* message characters of the pipeline: 'a', 'Z', '/'
MsgChars == {97, 90, 47}

\* characters a corrupted position is set to when the budget is above 1:
\* 'b', '_' (with a budget of 1, any character of the alphabet)
CorruptChars == {98, 95}

AllChars == 0..127

ValidChars == {c \in AllChars : is_valid_char(c)}

NoOut == [panic |-> "none", ok |-> FALSE, val |-> <<>>]

\* State::default (main.rs:16-26)
StateDefault ==
    /\ errors = 2
    /\ original = <<>>
    /\ encoded = <<>>
    /\ is_error = FALSE
    /\ hack = FALSE
    /\ panicked = "none"

CodecIdle ==
    /\ c_pc = "idle"
    /\ c_errors = 1
    /\ c_msg = <<>>
    /\ c_syms = <<>>
    /\ c_word = <<>>
    /\ c_bad = {}
    /\ c_buf = <<>>
    /\ c_out = NoOut

NoEvent == [handler |-> "none", text |-> <<>>, value |-> [num |-> FALSE, x |-> 0]]

Init == StateDefault /\ CodecIdle /\ events = 0 /\ last = NoEvent

\* what one keystroke makes of the text s shown in an input element
Edits(s, maxlen) ==
    ( {Append(s, c) : c \in {d \in UIChars : Len(s) < maxlen}}
      \cup {SubSeq(s, 1, Len(s) - 1) : i \in {j \in {1} : Len(s) > 0}}
      \cup {[s EXCEPT ![i] = c] : i \in 1..Len(s), c \in UIChars} ) \ {s}

\* value attribute of the original input (main.rs:149-153)
shown_original == IF is_error THEN <<>> ELSE original

\* clamp without the upper arm
clamp_min_only(number, min, max) ==
    IF number < min THEN min ELSE number

clamp(number, min, max) ==
    IF number < min THEN min
    ELSE IF number > max THEN max
    ELSE number

\* element.value().parse::<i32>().ok() (main.rs:167)
parse_i32(v) ==
    IF v.num THEN [some |-> TRUE, x |-> v.x]
    ELSE [some |-> FALSE, x |-> 0]

\* a handler that panics leaves the store as it was and ends the page
Panic(reason) ==
    /\ panicked' = reason
    /\ UNCHANGED <<errors, original, encoded, is_error, hack>>

\* an accepted original stored without the reset of is_error
store_original_flag(new, enc) ==
    IF enc.panic # "none" THEN Panic(enc.panic)
    ELSE /\ original' = new
         /\ encoded' = enc.val
         /\ UNCHANGED <<errors, is_error, hack, panicked>>

\* an accepted original stored without its codeword
store_original_stale(new, enc) ==
    IF enc.panic # "none" THEN Panic(enc.panic)
    ELSE /\ original' = new
         /\ is_error' = FALSE
         /\ UNCHANGED <<errors, encoded, hack, panicked>>

\* on_original_change, the accepted value stored (main.rs:119-126)
store_original(new, enc) ==
    IF enc.panic # "none" THEN Panic(enc.panic)
    ELSE /\ original' = new
         /\ encoded' = enc.val
         /\ is_error' = FALSE
         /\ UNCHANGED <<errors, hack, panicked>>

NoEncoding == [panic |-> "none", val |-> <<>>]

\* on_original_change (main.rs:112-127)
on_original_change(new) ==
    /\ panicked = "none"
    /\ IF Len(new) # 0 /\ ~is_valid_message(new)
       THEN /\ hack' = ~hack
            /\ UNCHANGED <<errors, original, encoded, is_error, panicked>>
       ELSE store_original(new, IF Len(new) = 0 THEN NoEncoding
                                ELSE my_encode(errors, new))
    /\ UNCHANGED codec_vars

\* a failed decode stored with the old original kept
store_decoded_keep(new, dec) ==
    IF dec.panic # "none" THEN Panic(dec.panic)
    ELSE /\ IF dec.ok
            THEN original' = dec.val /\ is_error' = FALSE
            ELSE original' = original /\ is_error' = TRUE
         /\ encoded' = new
         /\ UNCHANGED <<errors, hack, panicked>>

\* a failed decode stored with the typed text as the original
store_decoded_guess(new, dec) ==
    IF dec.panic # "none" THEN Panic(dec.panic)
    ELSE /\ IF dec.ok
            THEN original' = dec.val /\ is_error' = FALSE
            ELSE original' = new /\ is_error' = TRUE
         /\ encoded' = new
         /\ UNCHANGED <<errors, hack, panicked>>

\* on_encoded_change, the decode result stored (main.rs:136-143)
store_decoded(new, dec) ==
    IF dec.panic # "none" THEN Panic(dec.panic)
    ELSE /\ IF dec.ok
            THEN original' = dec.val /\ is_error' = FALSE
            ELSE original' = <<>> /\ is_error' = TRUE
         /\ encoded' = new
         /\ UNCHANGED <<errors, hack, panicked>>

\* on_encoded_change with a rejected value stored in the encoded field
on_encoded_change_stored(new) ==
    /\ panicked = "none"
    /\ IF ~is_valid_message(new)
       THEN /\ hack' = ~hack
            /\ encoded' = new
            /\ UNCHANGED <<errors, original, is_error, panicked>>
       ELSE store_decoded(new, my_decode(errors, new))
    /\ UNCHANGED codec_vars

\* on_encoded_change (main.rs:129-144)
on_encoded_change(new) ==
    /\ panicked = "none"
    /\ IF ~is_valid_message(new)
       THEN /\ hack' = ~hack
            /\ UNCHANGED <<errors, original, encoded, is_error, panicked>>
       ELSE store_decoded(new, my_decode(errors, new))
    /\ UNCHANGED codec_vars

\* the new state.errors (main.rs:167)
errors_after(value) ==
    LET parsed == parse_i32(value)
    IN  IF parsed.some THEN clamp(parsed.x, 1, 50) ELSE errors

\* the new budget stored with the encoded text left as it was
store_errors_stale(errs, enc) ==
    IF enc.panic # "none" THEN Panic(enc.panic)
    ELSE /\ errors' = errs
         /\ hack' = ~hack
         /\ is_error' = FALSE
         /\ UNCHANGED <<original, encoded, panicked>>

\* on_input, the new budget and the re-encoded original stored
\* (main.rs:167-168, 174-180)
store_errors(errs, enc) ==
    IF enc.panic # "none" THEN Panic(enc.panic)
    ELSE /\ errors' = errs
         /\ hack' = ~hack
         /\ encoded' = enc.val
         /\ is_error' = FALSE
         /\ UNCHANGED <<original, panicked>>

\* on_input that decodes the encoded text again with the new budget while
\* the error flag is set
on_input_redecode(value) ==
    /\ panicked = "none"
    /\ IF is_error
       THEN /\ errors' = errors_after(value)
            /\ hack' = ~hack
            /\ IF my_decode(errors_after(value), encoded).ok
               THEN /\ original' = my_decode(errors_after(value), encoded).val
                    /\ is_error' = FALSE
               ELSE UNCHANGED <<original, is_error>>
            /\ UNCHANGED <<encoded, panicked>>
       ELSE store_errors(errors_after(value),
                         IF Len(original) = 0 THEN NoEncoding
                         ELSE my_encode(errors_after(value), original))
    /\ UNCHANGED codec_vars

\* ErrorsInput's on_input (main.rs:165-181)
on_input(value) ==
    /\ panicked = "none"
    /\ IF is_error
       THEN /\ errors' = errors_after(value)
            /\ hack' = ~hack
            /\ UNCHANGED <<original, encoded, is_error, panicked>>
       ELSE store_errors(errors_after(value),
                         IF Len(original) = 0 THEN NoEncoding
                         ELSE my_encode(errors_after(value), original))
    /\ UNCHANGED codec_vars

\* one more event handled, at most MaxEvents in a checked run
Event == events < MaxEvents /\ events' = events + 1

OriginalEdit ==
    /\ Event
    /\ \E new \in Edits(shown_original, MaxOrigLen) :
          /\ on_original_change(new)
          /\ last' = [NoEvent EXCEPT !.handler = "on_original_change", !.text = new]

EncodedEdit ==
    /\ Event
    /\ \E new \in Edits(encoded, MaxEncLen) :
          /\ on_encoded_change(new)
          /\ last' = [NoEvent EXCEPT !.handler = "on_encoded_change", !.text = new]

ErrorsEdit ==
    /\ Event
    /\ \E value \in ErrorsInputs :
          /\ on_input(value)
          /\ last' = [NoEvent EXCEPT !.handler = "on_input", !.value = value]

Next == OriginalEdit \/ EncodedEdit \/ ErrorsEdit

Spec == Init /\ [][Next]_vars

\* ------------------------------------------------------------------------
\* The codec pipeline: encode a message, corrupt the codeword, decode it
\* ------------------------------------------------------------------------

Messages == UNION {[1..n -> MsgChars] : n \in 0..MaxMsgLen}

CodecInit ==
    /\ StateDefault
    /\ events = 0
    /\ last = NoEvent
    /\ c_pc = "input"
    /\ c_errors \in 1..MaxBudget
    /\ c_msg \in Messages
    /\ c_syms = <<>>
    /\ c_word = <<>>
    /\ c_bad = {}
    /\ c_buf = <<>>
    /\ c_out = NoOut

\* my_encode(c_errors, c_msg), keeping the symbols encode returned
CodecEncode ==
    /\ c_pc = "input"
    /\ LET enc == my_encode(c_errors, c_msg)
       IN  /\ c_syms' = encode(c_errors, str_to_c67(c_msg)).val
           /\ c_word' = enc.val
           /\ c_pc' = IF enc.panic = "none" THEN "encoded" ELSE "failed"
    /\ UNCHANGED <<c_errors, c_msg, c_bad, c_buf, c_out, events, last>>
    /\ UNCHANGED ui_vars

\* the characters position pos of the codeword can be corrupted to
CorruptTo(pos) ==
    {ch \in (IF c_errors = 1 THEN ValidChars ELSE CorruptChars) :
        ch # c67_to_char(c_syms[pos])}

\* one position of the codeword is set to a different character; at most
\* c_errors positions differ from what encode returned. Positions are
\* corrupted from left to right, which reaches every corrupted word once.
CodecCorrupt(pos, ch) ==
    /\ c_pc = "encoded"
    /\ \A p \in c_bad : p < pos
    /\ Cardinality(c_bad \cup {pos}) <= c_errors
    /\ c_word' = [c_word EXCEPT ![pos] = ch]
    /\ c_bad' = c_bad \cup {pos}
    /\ UNCHANGED <<c_pc, c_errors, c_msg, c_syms, c_buf, c_out, events, last>>
    /\ UNCHANGED ui_vars

\* the lines of my_decode after decode returned d (main.rs:78-79), keeping
\* the buffer decode left
CodecDecoded(d) ==
    /\ c_out' = my_decode_decoded(c_errors, d)
    /\ c_buf' = d.buf

\* my_decode(c_errors, c_word) (main.rs:76-80)
CodecDecode ==
    /\ c_pc = "encoded"
    /\ IF has_unexpected(str_to_c67(c_word))
       THEN c_out' = my_decode(c_errors, c_word) /\ c_buf' = <<>>
       ELSE CodecDecoded(decode(c_errors, str_to_c67(c_word)))
    /\ c_pc' = "decoded"
    /\ UNCHANGED <<c_errors, c_msg, c_syms, c_word, c_bad, events, last>>
    /\ UNCHANGED ui_vars

CodecNext ==
    \/ CodecEncode
    \/ \E pos \in 1..Len(c_word) : \E ch \in CorruptTo(pos) : CodecCorrupt(pos, ch)
    \/ CodecDecode

CodecSpec == CodecInit /\ [][CodecNext]_vars

\* ------------------------------------------------------------------------
\* Properties
\* ------------------------------------------------------------------------

Ok(str) == [panic |-> "none", ok |-> TRUE, val |-> str]

InRange(seq) == \A i \in 1..Len(seq) : seq[i] \in Gfe

RECURSIVE nth_difference(_, _)
\* the k-th forward difference of a sequence of field values
nth_difference(seq, k) ==
    IF k = 0 THEN seq
    ELSE nth_difference([i \in 1..(Len(seq) - 1) |-> sub(seq[i + 1], seq[i])], k - 1)

\* the values at consecutive points of a polynomial of degree < k
IsPolynomialOfDegreeBelow(seq, k) ==
    \A i \in 1..(Len(seq) - k) : nth_difference(seq, k)[i] = 0

C4_Uncorrectable ==
    [][ ( /\ last'.handler = "on_encoded_change"
          /\ is_valid_message(last'.text)
          /\ ~my_decode(errors, last'.text).ok )
        => ( /\ is_error' = TRUE
             /\ original' = <<>>
             /\ encoded' = last'.text
             /\ errors' = errors
             /\ panicked' = "none" ) ]_vars

C4_Witness ==
    /\ is_error /\ original = <<>>
    /\ is_valid_message(encoded)
    /\ Len(encoded) > 2 * errors
    /\ ~my_decode(errors, encoded).ok

AlphabetIsBijection ==
    /\ Cardinality(ValidChars) = P
    /\ \A c \in ValidChars : char_to_c67(c) \in Gfe /\ c67_to_char(char_to_c67(c)) = c
    /\ \A x \in Gfe : c67_to_char(x) \in ValidChars /\ char_to_c67(c67_to_char(x)) = x

\* C7: the alphabet mapping is a bijection between the 67 accepted
\* characters and 0..66: text to symbols and back is the identity on accepted
\* text, symbols to text and back is the identity on symbols.
C7_Bijection ==
    /\ AlphabetIsBijection
    /\ is_valid_message(c_msg) => c67_to_str(str_to_c67(c_msg)) = c_msg
    /\ is_valid_message(c_word) => c67_to_str(str_to_c67(c_word)) = c_word
    /\ str_to_c67(c67_to_str(c_syms)) = c_syms
    /\ str_to_c67(c67_to_str(c_buf)) = c_buf

C7_Witness ==
    /\ c_pc = "decoded" /\ c_out.ok
    /\ \E i \in 1..Len(c_word) : c_word[i] = 57
    /\ \E i \in 1..Len(c_word) : c_word[i] = 90
    /\ \E i \in 1..Len(c_word) : c_word[i] = 47

\* C8: every symbol str_to_c67 or encode produces, or a successful decode
\* leaves in the buffer, is in 0..66; c67_to_str never reaches unreachable!().
C8_InField ==
    /\ InRange(str_to_c67(c_msg))
    /\ InRange(str_to_c67(c_word))
    /\ InRange(c_syms)
    /\ InRange(c_buf)
    /\ c_pc # "failed"
    /\ c_out.panic # "unreachable"
    /\ ~has_unexpected(c67_to_str(c_syms))
    /\ ~has_unexpected(c67_to_str(c_buf))

C8_Witness ==
    /\ c_pc = "decoded" /\ c_out.ok /\ c_bad # {}
    /\ Len(c_msg) = 2
    /\ \E i \in 1..Len(c_buf) : c_buf[i] \notin {0, 51, 66}
    /\ InRange(c_buf)

\* C9: an edit of the original field to an accepted value (empty, or
\* alphabet characters only) that the handler completes sets original to the
\* value, encoded to "" for the empty value and to my_encode(errors, value)
\* otherwise, is_error to false, and leaves errors unchanged.
C9_OriginalEdit ==
    [][ ( /\ last'.handler = "on_original_change"
          /\ (Len(last'.text) = 0 \/ is_valid_message(last'.text))
          /\ panicked' = "none" )
        => ( /\ original' = last'.text
             /\ encoded' = (IF Len(last'.text) = 0 THEN <<>>
                            ELSE my_encode(errors, last'.text).val)
             /\ is_error' = FALSE
             /\ errors' = errors ) ]_vars

C9_Witness ==
    /\ ~is_error /\ panicked = "none"
    /\ Len(original) = 2 /\ original[1] # original[2]
    /\ encoded = my_encode(errors, original).val
    /\ Len(encoded) = 2 + 2 * errors

\* C10: errors is always in 1..50, 2 at the start; a max-errors input that
\* parses is clamped into 1..50, one that does not parse leaves errors as it
\* was.
C10_Budget ==
    /\ [](errors \in 1..50 /\ (events = 0 => errors = 2))
    /\ [][ (last'.handler = "on_input" /\ panicked' = "none")
           => /\ last'.value.num =>
                    /\ (last'.value.x \in 1..50 => errors' = last'.value.x)
                    /\ (last'.value.x < 1 => errors' = 1)
                    /\ (last'.value.x > 50 => errors' = 50)
              /\ ~last'.value.num => errors' = errors ]_vars

C10_Witness ==
    /\ errors = 50 /\ events = 1 /\ hack /\ panicked = "none"

\* C11: an edit of the original field to a non-empty string with a character
\* outside the alphabet, or of the encoded field to the empty string or to a
\* string with such a character, toggles hack and leaves errors, original,
\* encoded and is_error as they were; the handler returns without a panic.
C11_Rejected ==
    [][ ( \/ /\ last'.handler = "on_original_change"
             /\ Len(last'.text) # 0
             /\ \E i \in 1..Len(last'.text) : ~is_valid_char(last'.text[i])
          \/ /\ last'.handler = "on_encoded_change"
             /\ \/ Len(last'.text) = 0
                \/ \E i \in 1..Len(last'.text) : ~is_valid_char(last'.text[i]) )
        => ( /\ hack' = ~hack
             /\ errors' = errors
             /\ original' = original
             /\ encoded' = encoded
             /\ is_error' = is_error
             /\ panicked' = "none" ) ]_vars

C11_Witness ==
    /\ last.handler = "on_encoded_change" /\ last.text = <<>>
    /\ Len(encoded) = 1 /\ is_error
    /\ hack /\ panicked = "none"

C14_ErrorClearsOriginal ==
    /\ [](is_error => original = <<>>)
    /\ [][ /\ (~is_error /\ is_error')
              => (original' = <<>> /\ last'.handler = "on_encoded_change")
           /\ (is_error /\ is_error') => original' = original ]_vars

C14_Witness ==
    /\ is_error /\ original = <<>>
    /\ last.handler = "on_input" /\ events >= 4
    /\ Len(encoded) > 2 * errors

\* C15: while is_error = true a max-errors change writes only errors (the
\* clamped input, or the old value) and hack; original, encoded and is_error
\* stay as they were. is_error goes from true to false only by an accepted
\* edit of the original field or an edit of the encoded field that decodes.
C15_StickyError ==
    [][ /\ (last'.handler = "on_input" /\ is_error)
          => ( /\ is_error' = TRUE
               /\ original' = original
               /\ encoded' = encoded
               /\ errors' = errors_after(last'.value)
               /\ hack' = ~hack
               /\ panicked' = "none" )
        /\ (is_error /\ ~is_error')
           => ( \/ /\ last'.handler = "on_original_change"
                   /\ (Len(last'.text) = 0 \/ is_valid_message(last'.text))
                \/ /\ last'.handler = "on_encoded_change"
                   /\ is_valid_message(last'.text)
                   /\ my_decode(errors, last'.text).ok ) ]_vars

\* the flag is still set after a max-errors change although the encoded
\* text decodes with the new budget
C15_Witness ==
    /\ is_error /\ last.handler = "on_input" /\ panicked = "none"
    /\ Len(encoded) > 2 * errors
    /\ my_decode(errors, encoded).ok

\* C16: a max-errors change while is_error = false that the handler
\* completes leaves encoded = my_encode(new errors, original) when original
\* is non-empty and encoded = "" when it is empty, whatever text the encoded
\* field held; original and is_error = false are unchanged, errors is the
\* clamped input (or the old value) and hack is toggled.
C16_Reencode ==
    [][ (last'.handler = "on_input" /\ ~is_error /\ panicked' = "none")
        => ( /\ encoded' = (IF Len(original) = 0 THEN <<>>
                            ELSE my_encode(errors', original).val)
             /\ (Len(original) # 0 => my_encode(errors', original).panic = "none")
             /\ errors' = errors_after(last'.value)
             /\ original' = original
             /\ is_error' = FALSE
             /\ hack' = ~hack ) ]_vars

C16_Witness ==
    /\ last.handler = "on_input" /\ last.value.num /\ panicked = "none"
    /\ ~is_error /\ errors = 1 /\ Len(original) = 2
    /\ events >= 4
    /\ Len(encoded) = 4
    /\ encoded = my_encode(errors, original).val

\* C17: in every reachable state original and encoded hold only the 67
\* alphabet characters, str_to_c67 maps every one of them, and no handler
\* has ended in str_to_c67's panic arm ("Unexpected character").
C17_AlphabetOnly ==
    /\ \A i \in 1..Len(original) : original[i] \in ValidChars
    /\ \A i \in 1..Len(encoded) : encoded[i] \in ValidChars
    /\ ~has_unexpected(str_to_c67(original))
    /\ ~has_unexpected(str_to_c67(encoded))
    /\ panicked # "Unexpected character"

C17_Witness ==
    /\ last.handler = "on_input" /\ panicked = "none" /\ ~is_error
    /\ Len(original) = 2 /\ Len(encoded) = Len(original) + 2 * errors
    /\ \E i \in 1..Len(encoded) : encoded[i] \notin UIChars
    /\ \A i \in 1..Len(encoded) : encoded[i] \in ValidChars

====
